---- MODULE Spec2Model ----
(***************************************************************************)
(* Model of main.go: the two HTTP entry points UsersAPI and                *)
(* SuscriptionsAPI, the authorization step, the CRUD handlers and the      *)
(* provisioning function HandleUserCreate, over a document store with the  *)
(* three collections the code names ("Users", "Suscriptions", "user").     *)
(*                                                                         *)
(* A request runs in two steps: the entry point first builds the app and   *)
(* the store client (Begin / BeginFails), then dispatches on the method    *)
(* and releases the client on return (UsersAPI / SuscriptionsAPI).         *)
(* Requests between the two steps are in flight; log.Fatalf in             *)
(* authorizeRequest ends the process with them unanswered.                 *)
(***************************************************************************)
EXTENDS Integers, Sequences, FiniteSets, TLC

\* Bounds of the model.
MaxInFlight == 2   \* requests that may hold a store client at the same time
MaxClock == 1      \* clock readings are 0..MaxClock seconds
MaxNsec == 1       \* sub-second part of a clock reading, 0..MaxNsec

VARIABLES
    store,      \* the document store: collection -> contents
    inFlight,   \* endpoint -> number of requests holding a client, not yet dispatched
    running,    \* FALSE once the process has exited (log.Fatalf)
    last,       \* record of the request that completed last
    created     \* <<[id, body]>> of the last POST /users answered 201, <<>> after any later store mutation

vars == <<store, inFlight, running, last, created>>

----------------------------------------------------------------------------
\* JSON values and request bodies

Null == "<null>"
EmptyObj == [k \in {} |-> ""]

\* UsersFieldsType with every field at its zero value.
ZeroUsersFields ==
    [ID |-> "", Name |-> "", Price |-> 0, Type |-> "", Year |-> "",
     Image |-> "", Description |-> "", Slug |-> ""]

\* DeleteType with its field at its zero value.
ZeroDelete == [ID |-> ""]

\* encoding/json matches an object key to a struct field by the field's json
\* name (the Go field name when there is no json tag), first exactly, then
\* ignoring case.  Fold is the case folding of the keys the bodies below use.
Fold(k) ==
    CASE k \in {"id", "ID"} -> "id"
      [] k \in {"name", "Name"} -> "name"
      [] k \in {"price", "Price"} -> "price"
      [] k \in {"type", "Type"} -> "type"
      [] k \in {"year", "Year"} -> "year"
      [] k \in {"image", "Image"} -> "image"
      [] k \in {"description", "Description"} -> "description"
      [] k \in {"slug", "Slug"} -> "slug"
      [] k = "displayName" -> "displayname"
      [] OTHER -> k

\* The value json.Unmarshal leaves in the struct field named jsonName.
Field(obj, jsonName, zero) ==
    LET ks == {k \in DOMAIN obj : Fold(k) = Fold(jsonName)}
    IN  IF ks = {} THEN zero ELSE obj[CHOOSE k \in ks : TRUE]

\* A request body: what ioutil.ReadAll and json.Unmarshal make of it.
\*   "none"      no body (GET, OPTIONS)
\*   "readerr"   reading the body fails
\*   "malformed" the bytes are not well-formed JSON: json.Unmarshal fails
\*   "null"      the JSON literal null
\*   "object"    a JSON object with fitting value types
Body(kind, obj) == [kind |-> kind, obj |-> obj]

NoBody == Body("none", EmptyObj)
BodyReadErr == Body("readerr", EmptyObj)
BodyMalformed == Body("malformed", EmptyObj)
BodyNull == Body("null", EmptyObj)
BodyAna ==
    Body("object", [ID |-> "u1", name |-> "Ana", price |-> 0, type |-> "t",
                    year |-> "2024", image |-> "", description |-> "", slug |-> "ana"])
\* The body of the scenario of the specification, keyed by the store's field names.
BodyScenario ==
    Body("object", [uid |-> "u1", displayName |-> "Ana", price |-> 0, type |-> "t",
                    year |-> "2024", image |-> "", description |-> "", slug |-> "ana"])

MutatingBodies ==
    {BodyReadErr, BodyMalformed, BodyNull, BodyAna, BodyScenario}

\* json.Unmarshal(body, &v) for v of type UsersFieldsType.
UnmarshalUsersFields(body) ==
    IF body.kind = "malformed"
    THEN [err |-> TRUE, v |-> ZeroUsersFields]
    ELSE [err |-> FALSE,
          v |-> [ID          |-> Field(body.obj, "ID", ""),
                 Name        |-> Field(body.obj, "Name", ""),
                 Price       |-> Field(body.obj, "Price", 0),
                 Type        |-> Field(body.obj, "Type", ""),
                 Year        |-> Field(body.obj, "Year", ""),
                 Image       |-> Field(body.obj, "Image", ""),
                 Description |-> Field(body.obj, "Description", ""),
                 Slug        |-> Field(body.obj, "Slug", "")]]

\* json.Unmarshal(body, &v) for v of type DeleteType (json name "id").
UnmarshalDelete(body) ==
    IF body.kind = "malformed"
    THEN [err |-> TRUE, v |-> ZeroDelete]
    ELSE [err |-> FALSE, v |-> [ID |-> Field(body.obj, "id", "")]]

\* What the store client is handed as document data.
\*   "doc"   a struct or map: a document with fields
\*   "bytes" a byte slice (the output of json.Marshal)
\*   "none"  no data (delete, query)
Data(kind, fields) == [kind |-> kind, fields |-> fields]
NoData == Data("none", EmptyObj)

\* The document the store client makes of a UsersFieldsType, by its firestore tags.
UsersFieldsDoc(u) ==
    Data("doc", [uid |-> u.ID, displayName |-> u.Name, price |-> u.Price,
                 type |-> u.Type, year |-> u.Year, image |-> u.Image,
                 description |-> u.Description, slug |-> u.Slug])

\* json.Marshal of a map: a byte slice holding the map's JSON text.
Marshal(m) == Data("bytes", m)

----------------------------------------------------------------------------
\* The document store

DocIDs == {"u1", "u2"}
Absent == <<>>

EmptyCollection == [id \in DocIDs |-> Absent]

\* Documents of collection "user", which this program reads and never writes.
LegacyAna ==
    [uid |-> "u1", displayName |-> "Ana (legacy)", price |-> 0, type |-> "t",
     year |-> "2020", image |-> "", description |-> "", slug |-> "ana"]
LegacyDup ==
    [uid |-> "u1", displayName |-> "Ana (duplicate)", price |-> 0, type |-> "t",
     year |-> "2021", image |-> "", description |-> "", slug |-> "ana2"]

UserSeeds == {<<>>, <<LegacyAna, LegacyDup>>}

\* A store call as the client issues it, with its result.
Call(op, coll, id, data, err) ==
    [op |-> op, coll |-> coll, id |-> id, data |-> data, err |-> err]

\* DocumentRef.Create: fails on an empty id, on data that is not a document,
\* on an existing document, or when the store fails.
Create(st, coll, id, data, fail) ==
    LET err == fail \/ id \notin DocIDs \/ data.kind # "doc" \/ st[coll][id] # Absent
    IN  [err |-> err,
         store |-> IF err THEN st
                   ELSE [st EXCEPT ![coll] = [@ EXCEPT ![id] = <<data.fields>>]],
         call |-> Call("Create", coll, id, data, err)]

\* DocumentRef.Set: overwrites or creates.
Set(st, coll, id, data, fail) ==
    LET err == fail \/ id \notin DocIDs \/ data.kind # "doc"
    IN  [err |-> err,
         store |-> IF err THEN st
                   ELSE [st EXCEPT ![coll] = [@ EXCEPT ![id] = <<data.fields>>]],
         call |-> Call("Set", coll, id, data, err)]

\* DocumentRef.Delete: deleting an absent document is no error.
Delete(st, coll, id, fail) ==
    LET err == fail \/ id \notin DocIDs
    IN  [err |-> err,
         store |-> IF err THEN st
                   ELSE [st EXCEPT ![coll] = [@ EXCEPT ![id] = Absent]],
         call |-> Call("Delete", coll, id, NoData, err)]

\* Collection(coll).Where(field, "==", value).Documents: the matching
\* documents in the collection's order.
Where(docs, field, value) ==
    SelectSeq(docs, LAMBDA d : field \in DOMAIN d /\ d[field] = value)

----------------------------------------------------------------------------
\* http.ResponseWriter

\* status is the status line the response carries (0: none written yet);
\* writeHeaderCalls lists every WriteHeader call the handler made.
NewResponse == [status |-> 0, headers |-> {}, body |-> <<>>, writeHeaderCalls |-> <<>>]

\* http.Header.Set stores the key in its canonical form.
CanonicalHeaderKey(k) == IF k = "content-type" THEN "Content-Type" ELSE k

\* w.Header().Set(k, v): replaces the key's value; without effect on the
\* response once the status line has been written.
SetHeader(w, k, v) ==
    IF w.status # 0 THEN w
    ELSE [w EXCEPT !.headers =
            {h \in @ : h[1] # CanonicalHeaderKey(k)} \cup {<<CanonicalHeaderKey(k), v>>}]

\* w.WriteHeader(code): the first call fixes the status, later calls are
\* logged as superfluous and ignored.
WriteHeader(w, code) ==
    [w EXCEPT !.status = IF @ = 0 THEN code ELSE @,
              !.writeHeaderCalls = Append(@, code)]

\* w.Write(item): writes status 200 first when no status has been written.
Write(w, item) ==
    [w EXCEPT !.status = IF @ = 0 THEN 200 ELSE @,
              !.body = Append(@, item)]

JsonItem(v) == [type |-> "json", json |-> v, text |-> ""]
TextItem(t) == [type |-> "text", json |-> EmptyObj, text |-> t]

\* json.NewEncoder(w).Encode(v)
Encode(w, v) == Write(w, JsonItem(v))

\* http.Error(w, text, code)
HttpError(w, text, code) ==
    LET w1 == SetHeader(w, "Content-Type", "text/plain; charset=utf-8")
        w2 == SetHeader(w1, "X-Content-Type-Options", "nosniff")
        w3 == WriteHeader(w2, code)
    IN  Write(w3, TextItem(text \o "\n"))

----------------------------------------------------------------------------
\* authorizeRequest

ValidToken == "good"
Tokens == {"", "bad", ValidToken}

\* auth.VerifyIDToken(ctx, header): an error for an empty or invalid token,
\* or when the verifier itself fails.
VerifyIDTokenFails(token, verifyErr) == token # ValidToken \/ verifyErr

ForbiddenBody ==
    [error |-> "FORBIDDEN", statusCode |-> 403, data |-> Null,
     message |-> "You are trying to access to this api with malformed or unhauthenticated user"]

\* Returns the response writer and how the step ended:
\*   "fatal"    app.Auth failed and log.Fatalf ended the process
\*   "rejected" the token was refused and a 403 was written
\*   "ok"       the token verified
\* In the last two cases the function returns to its caller.
authorizeRequest(w, token, authClientErr, verifyErr) ==
    IF authClientErr THEN [w |-> w, auth |-> "fatal"]
    ELSE IF VerifyIDTokenFails(token, verifyErr)
    THEN LET w1 == SetHeader(w, "content-type", "application/json")
             w2 == WriteHeader(w1, 403)
         IN  [w |-> Encode(w2, ForbiddenBody), auth |-> "rejected"]
    ELSE [w |-> w, auth |-> "ok"]

----------------------------------------------------------------------------
\* CRUD handlers.  Each returns the response writer, the store, the store
\* calls it issued and whether it returned or panicked.

Result(w, st, calls, outcome) ==
    [w |-> w, store |-> st, calls |-> calls, outcome |-> outcome]

NotFoundBody ==
    [error |-> "NOT_FOUND", statusCode |-> 404, data |-> Null,
     message |-> "User uid not found"]

\* The for loop over iter.Next(): call number errAt fails (0: none does);
\* the call after the last match returns iterator.Done.
RECURSIVE IterLoop(_, _, _, _)
IterLoop(matches, errAt, i, Users) ==
    IF errAt = i THEN [err |-> TRUE, Users |-> Users]
    ELSE IF i > Len(matches) THEN [err |-> FALSE, Users |-> Users]
    ELSE IterLoop(matches, errAt, i + 1, Append(Users, matches[i]))

\* getDocs answering with the last match instead of the first.
getDocsLastMatch(w, st, uid, iterErrAt) ==
    LET matches == Where(st["user"], "uid", uid)
        it == IterLoop(matches, iterErrAt, 1, <<>>)
        call == Call("Query", "user", uid, NoData, it.err)
    IN  IF it.err THEN Result(WriteHeader(w, 500), st, <<call>>, "return")
        ELSE IF it.Users # <<>>
        THEN Result(Encode(w, it.Users[Len(it.Users)]), st, <<call>>, "return")
        ELSE LET w1 == SetHeader(w, "content-type", "application/json")
                 w2 == WriteHeader(w1, 404)
             IN  Result(Encode(w2, NotFoundBody), st, <<call>>, "return")

\* The body shared by getUsers and getSuscriptions: both query collection "user".
getDocs(w, st, uid, iterErrAt) ==
    LET matches == Where(st["user"], "uid", uid)
        it == IterLoop(matches, iterErrAt, 1, <<>>)
        call == Call("Query", "user", uid, NoData, it.err)
    IN  IF it.err THEN Result(WriteHeader(w, 500), st, <<call>>, "return")
        ELSE IF it.Users # <<>>
        THEN Result(Encode(w, it.Users[1]), st, <<call>>, "return")
        ELSE LET w1 == SetHeader(w, "content-type", "application/json")
                 w2 == WriteHeader(w1, 404)
             IN  Result(Encode(w2, NotFoundBody), st, <<call>>, "return")

getUsers(w, st, uid, iterErrAt) == getDocs(w, st, uid, iterErrAt)

getSuscriptions(w, st, uid, iterErrAt) == getDocs(w, st, uid, iterErrAt)

\* setDocs without the return that follows the 400 of a failed decode.
setDocsNoReturn(coll, w, st, body, storeErr) ==
    IF body.kind = "readerr" THEN Result(w, st, <<>>, "panic")
    ELSE LET u == UnmarshalUsersFields(body)
             w1 == IF u.err THEN WriteHeader(w, 400) ELSE w
             c == Create(st, coll, u.v.ID, UsersFieldsDoc(u.v), storeErr)
         IN  IF c.err THEN Result(WriteHeader(w1, 500), c.store, <<c.call>>, "return")
             ELSE Result(WriteHeader(w1, 201), c.store, <<c.call>>, "return")

\* The body shared by setUsers and setSuscriptions.
setDocs(coll, w, st, body, storeErr) ==
    IF body.kind = "readerr" THEN Result(w, st, <<>>, "panic")
    ELSE LET u == UnmarshalUsersFields(body)
             c == Create(st, coll, u.v.ID, UsersFieldsDoc(u.v), storeErr)
         IN  IF u.err THEN Result(WriteHeader(w, 400), st, <<>>, "return")
             ELSE IF c.err THEN Result(WriteHeader(w, 500), c.store, <<c.call>>, "return")
             ELSE Result(WriteHeader(w, 201), c.store, <<c.call>>, "return")

setUsers(w, st, body, storeErr) == setDocs("Users", w, st, body, storeErr)

setSuscriptions(w, st, body, storeErr) == setDocs("Suscriptions", w, st, body, storeErr)

\* The body shared by deleteUsers and deleteSuscriptions.
deleteDocs(coll, w, st, body, storeErr) ==
    IF body.kind = "readerr" THEN Result(WriteHeader(w, 400), st, <<>>, "return")
    ELSE LET b == UnmarshalDelete(body)
             d == Delete(st, coll, b.v.ID, storeErr)
         IN  IF b.err THEN Result(WriteHeader(w, 400), st, <<>>, "return")
             ELSE IF d.err THEN Result(WriteHeader(w, 500), d.store, <<d.call>>, "return")
             ELSE Result(WriteHeader(w, 200), d.store, <<d.call>>, "return")

deleteUsers(w, st, body, storeErr) == deleteDocs("Users", w, st, body, storeErr)

deleteSuscriptions(w, st, body, storeErr) == deleteDocs("Suscriptions", w, st, body, storeErr)

\* The body shared by updateUsers and updateSuscriptions.
updateDocs(coll, w, st, body, storeErr) ==
    IF body.kind = "readerr" THEN Result(WriteHeader(w, 400), st, <<>>, "return")
    ELSE LET u == UnmarshalUsersFields(body)
             s == Set(st, coll, u.v.ID, UsersFieldsDoc(u.v), storeErr)
         IN  IF u.err THEN Result(WriteHeader(w, 400), st, <<>>, "return")
             ELSE IF s.err THEN Result(WriteHeader(w, 500), s.store, <<s.call>>, "return")
             ELSE Result(WriteHeader(w, 200), s.store, <<s.call>>, "return")

updateUsers(w, st, body, storeErr) == updateDocs("Users", w, st, body, storeErr)

updateSuscriptions(w, st, body, storeErr) == updateDocs("Suscriptions", w, st, body, storeErr)

----------------------------------------------------------------------------
\* time.Time, as far as HandleUserCreate uses it

SecPerDay == 24 * 60 * 60

\* America/Buenos_Aires: UTC-3, without daylight-saving transitions.
BuenosAiresOffset == 0 - (3 * 60 * 60)

\* A clock reading: seconds and nanoseconds since the model's time origin.
Clock == [sec : 0..MaxClock, nsec : 0..MaxNsec]

\* t.In(location): the same instant, shown in the location's wall clock.
In(t, offset) == [sec |-> t.sec, nsec |-> t.nsec, off |-> offset]

\* AddDate with the day count taken for a count of hours.
AddDateAsHours(t, days) == [t EXCEPT !.sec = @ + (days * 60 * 60)]

\* t.AddDate(0, 0, days): the wall-clock date moved by days calendar days, the
\* time of day kept; the zone has one offset throughout.
AddDate(t, days) == [t EXCEPT !.sec = @ + (days * SecPerDay)]

\* t.Format(http.TimeFormat): the wall clock of t to the second, followed by
\* the literal zone name "GMT" of the layout.
Format(t) == [wall |-> t.sec + t.off, zone |-> "GMT"]

\* The number of days of the trial: the argument 7 * 12 of AddDate.
TrialDays == 7 * 12

\* The map HandleUserCreate builds from the clock reading t.
Suscription(t) ==
    [expired |-> FALSE,
     suscriptionType |-> "free-trial",
     cost |-> 0,
     expireAt |-> Format(AddDate(t, TrialDays)),
     createdAt |-> Format(t)]

----------------------------------------------------------------------------
\* The record of a completed request

Endpoints == {"users", "suscriptions"}
Methods == {"OPTIONS", "GET", "POST", "PUT", "DELETE", "PATCH"}
Mutating == {"POST", "PUT", "DELETE"}
Uids == {"", "u1", "u2"}

Request(method, token, body, uid) ==
    [method |-> method, token |-> token, body |-> body, uid |-> uid]

\* The requests drawn: a token and a body on the mutating methods, a uid
\* query parameter on GET.
Requests ==
    {Request(m, "", NoBody, "") : m \in {"OPTIONS", "PATCH"}}
    \cup {Request("GET", "", NoBody, u) : u \in Uids}
    \cup {Request(m, t, b, "") : m \in Mutating, t \in Tokens, b \in MutatingBodies}

NoRequest == Request("", "", NoBody, "")

\* kind      "none" (nothing completed yet), "http" or "trigger" (HandleUserCreate)
\* acquired  the entry point obtained a store client
\* closes    number of client.Close calls the request made
\* auth      "none" (authorizeRequest did not run), "ok", "rejected" or "fatal"
\* handler   the CRUD handler that ran, "" when none did
\* calls     the store calls issued
\* outcome   "return", "panic" (recovered by net/http, connection dropped) or
\*           "exit" (process ended)
\* changed   the store differs from the store before the request
\* clock     the clock readings taken;  susc: the subscription maps built
Completed(kind, endpoint, req, acquired, closes, auth, handler, calls, w, outcome, changed, clock, susc) ==
    [kind |-> kind, endpoint |-> endpoint, req |-> req, acquired |-> acquired,
     closes |-> closes, auth |-> auth, handler |-> handler, calls |-> calls,
     w |-> w, outcome |-> outcome, changed |-> changed, clock |-> clock,
     susc |-> susc]

Nothing ==
    Completed("none", "", NoRequest, FALSE, 0, "none", "", <<>>, NewResponse,
              "return", FALSE, <<>>, <<>>)

\* The status line the client receives: the one written (200 when the handler
\* returns without writing one); none (0) when the handler panicked or the
\* process exited before the response was flushed.
Sent(l) ==
    IF l.outcome # "return" THEN 0
    ELSE IF l.w.status = 0 THEN 200 ELSE l.w.status

IsMutation(call) == call.op \in {"Create", "Set", "Delete"}

MutationsIssued(l) == {i \in 1..Len(l.calls) : IsMutation(l.calls[i])}

----------------------------------------------------------------------------
\* Request dispatch

\* The preflight answer without its return: the method switch runs next and
\* its default case writes the error text.
PreflightNoReturn(w) ==
    LET w1 == SetHeader(w, "Access-Control-Allow-Origin", "*")
        w2 == SetHeader(w1, "Access-Control-Allow-Methods", "*")
        w3 == SetHeader(w2, "Access-Control-Allow-Headers", "Content-Type")
        w4 == SetHeader(w3, "Access-Control-Max-Age", "3600")
    IN  HttpError(WriteHeader(w4, 204), "UNSUPPORTED METHOD", 404)

\* The preflight answer of both entry points.
Preflight(w) ==
    LET w1 == SetHeader(w, "Access-Control-Allow-Origin", "*")
        w2 == SetHeader(w1, "Access-Control-Allow-Methods", "*")
        w3 == SetHeader(w2, "Access-Control-Allow-Headers", "Content-Type")
        w4 == SetHeader(w3, "Access-Control-Max-Age", "3600")
    IN  WriteHeader(w4, 204)

\* The handler an entry point routes a method to.
HandlerName(endpoint, method) ==
    LET suffix == IF endpoint = "users" THEN "Users" ELSE "Suscriptions"
    IN  CASE method = "GET" -> "get" \o suffix
          [] method = "POST" -> "set" \o suffix
          [] method = "DELETE" -> "delete" \o suffix
          [] method = "PUT" -> "update" \o suffix
          [] OTHER -> ""

\* The call of the CRUD handler of the switch statement.
RunHandler(endpoint, w, st, req, storeErr, iterErrAt) ==
    IF endpoint = "users"
    THEN CASE req.method = "GET" -> getUsers(w, st, req.uid, iterErrAt)
           [] req.method = "POST" -> setUsers(w, st, req.body, storeErr)
           [] req.method = "DELETE" -> deleteUsers(w, st, req.body, storeErr)
           [] req.method = "PUT" -> updateUsers(w, st, req.body, storeErr)
    ELSE CASE req.method = "GET" -> getSuscriptions(w, st, req.uid, iterErrAt)
           [] req.method = "POST" -> setSuscriptions(w, st, req.body, storeErr)
           [] req.method = "DELETE" -> deleteSuscriptions(w, st, req.body, storeErr)
           [] req.method = "PUT" -> updateSuscriptions(w, st, req.body, storeErr)

\* An entry point from the preflight test on, for a request that holds a
\* store client: the completed request and the store it leaves.  The
\* deferred client.Close runs when the function returns or panics, not when
\* the process exits.
Dispatch(endpoint, st, req, authClientErr, verifyErr, storeErr, iterErrAt) ==
    LET done(auth, handler, r, closes, outcome) ==
            [store |-> r.store,
             rec |-> Completed("http", endpoint, req, TRUE, closes, auth, handler,
                               r.calls, r.w, outcome, r.store # st, <<>>, <<>>)]
        w0 == SetHeader(NewResponse, "Access-Control-Allow-Origin", "*")
        a == authorizeRequest(w0, req.token, authClientErr, verifyErr)
        name == HandlerName(endpoint, req.method)
    IN  IF req.method = "OPTIONS"
        THEN done("none", "", Result(Preflight(NewResponse), st, <<>>, "return"), 1, "return")
        ELSE IF req.method = "GET"
        THEN LET r == RunHandler(endpoint, w0, st, req, storeErr, iterErrAt)
             IN  done("none", name, r, 1, r.outcome)
        ELSE IF req.method \in Mutating
        THEN IF a.auth = "fatal"
             THEN done("fatal", "", Result(a.w, st, <<>>, "exit"), 0, "exit")
             ELSE LET r == RunHandler(endpoint, a.w, st, req, storeErr, iterErrAt)
                  IN  done(a.auth, name, r, 1, r.outcome)
        ELSE done("none", "",
                  Result(HttpError(w0, "UNSUPPORTED METHOD", 404), st, <<>>, "return"),
                  1, "return")

----------------------------------------------------------------------------
\* HandleUserCreate

\* e.Value.Fields.ID is id.  time.LoadLocation's error is dropped: when it
\* fails the location is nil and t.In panics.  The subscription map is
\* marshalled and the byte slice is what Create is handed.  The completed
\* call keeps id in req.uid.
HandleUserCreate(st, w, id, tzOk, now, storeErr) ==
    LET t == In(now, BuenosAiresOffset)
        suscription == Suscription(t)
        jsonSuscription == Marshal(suscription)
        c == Create(st, "Suscriptions", id, jsonSuscription, storeErr)
        done(r, susc) ==
            [store |-> r.store,
             rec |-> Completed("trigger", "", Request("", "", NoBody, id), FALSE, 0,
                               "none", "HandleUserCreate", r.calls, r.w, r.outcome,
                               r.store # st, <<now>>, susc)]
    IN  IF ~tzOk THEN done(Result(w, st, <<>>, "panic"), <<>>)
        ELSE IF c.err
        THEN done(Result(WriteHeader(w, 500), c.store, <<c.call>>, "return"), <<suscription>>)
        ELSE done(Result(WriteHeader(w, 201), c.store, <<c.call>>, "return"), <<suscription>>)

----------------------------------------------------------------------------
\* The state machine

InitialStore(seed) ==
    [Users |-> EmptyCollection, Suscriptions |-> EmptyCollection, user |-> seed]

Init ==
    /\ store \in {InitialStore(seed) : seed \in UserSeeds}
    /\ inFlight = [e \in Endpoints |-> 0]
    /\ running = TRUE
    /\ last = Nothing
    /\ created = <<>>

InFlightTotal == inFlight["users"] + inFlight["suscriptions"]

\* A new request may start once the record of the completed one is dropped.
Ready == running /\ last.kind = "none"

\* firebase.NewApp and app.Firestore succeed: the request holds a client.
Begin(endpoint) ==
    /\ Ready
    /\ InFlightTotal < MaxInFlight
    /\ inFlight' = [inFlight EXCEPT ![endpoint] = @ + 1]
    /\ UNCHANGED <<store, running, last, created>>

\* firebase.NewApp or app.Firestore fails: 500, before the request is looked at.
BeginFails(endpoint) ==
    /\ Ready
    /\ \E m \in Methods :
         last' = Completed("http", endpoint, Request(m, "", NoBody, ""), FALSE, 0,
                           "none", "", <<>>, WriteHeader(NewResponse, 500),
                           "return", FALSE, <<>>, <<>>)
    /\ UNCHANGED <<store, inFlight, running, created>>

\* The failures the environment may inject into a request.
Envs(req, st) ==
    IF req.method = "GET"
    THEN {[authClientErr |-> FALSE, verifyErr |-> FALSE, storeErr |-> FALSE, iterErrAt |-> k] :
            k \in 0..(Len(st["user"]) + 1)}
    ELSE IF req.method \in Mutating
    THEN {[authClientErr |-> TRUE, verifyErr |-> FALSE, storeErr |-> FALSE, iterErrAt |-> 0]}
         \cup {[authClientErr |-> FALSE, verifyErr |-> v, storeErr |-> s, iterErrAt |-> 0] :
                 v \in IF req.token = ValidToken THEN BOOLEAN ELSE {FALSE},
                 s \in BOOLEAN}
    ELSE {[authClientErr |-> FALSE, verifyErr |-> FALSE, storeErr |-> FALSE, iterErrAt |-> 0]}

\* The ghost variable created after a completed request.
NextCreated(rec) ==
    IF /\ rec.endpoint = "users" /\ rec.req.method = "POST" /\ Sent(rec) = 201
       /\ \E i \in MutationsIssued(rec) : ~rec.calls[i].err
    THEN <<[id |-> rec.calls[1].id, body |-> rec.req.body]>>
    ELSE IF \E i \in MutationsIssued(rec) : ~rec.calls[i].err THEN <<>>
    ELSE created

\* A request holding a client is dispatched and completes.
Serve(endpoint) ==
    /\ Ready
    /\ inFlight[endpoint] > 0
    /\ \E req \in Requests :
         \E env \in Envs(req, store) :
            \E d \in {Dispatch(endpoint, store, req, env.authClientErr, env.verifyErr,
                               env.storeErr, env.iterErrAt)} :
                /\ store' = d.store
                /\ last' = d.rec
                /\ running' = (last'.outcome # "exit")
                /\ inFlight' = IF last'.outcome = "exit" THEN inFlight
                               ELSE [inFlight EXCEPT ![endpoint] = @ - 1]
                /\ created' = NextCreated(last')

UsersAPI == Begin("users") \/ BeginFails("users") \/ Serve("users")

SuscriptionsAPI ==
    Begin("suscriptions") \/ BeginFails("suscriptions") \/ Serve("suscriptions")

\* HandleUserCreate is called with an event for a profile id.
Provision ==
    /\ Ready
    /\ \E id \in Uids, tzOk \in BOOLEAN, now \in Clock, storeErr \in BOOLEAN :
         \E d \in {HandleUserCreate(store, NewResponse, id, tzOk, now, storeErr)} :
             /\ store' = d.store
             /\ last' = d.rec
             /\ created' = NextCreated(last')
    /\ UNCHANGED <<inFlight, running>>

\* The record of the completed request is dropped.
Forget ==
    /\ last.kind # "none"
    /\ last' = Nothing
    /\ UNCHANGED <<store, inFlight, running, created>>

Next == UsersAPI \/ SuscriptionsAPI \/ Provision \/ Forget

Spec == Init /\ [][Next]_vars

----------------------------------------------------------------------------
\* Properties

IsHttp == last.kind = "http"

IsMutating == IsHttp /\ last.req.method \in Mutating

\* C1: a POST, PUT or DELETE whose token the verifier rejects (or that
\* carries none) is answered 403 and no create, set or delete takes effect:
\* both collections are after the request as they were before it.
C1_RejectedTokenNoMutation ==
    (IsMutating /\ last.auth = "rejected" /\ last.outcome = "return")
        => /\ Sent(last) = 403
           /\ \A i \in MutationsIssued(last) : last.calls[i].err
           /\ ~last.changed

\* C2: once POST /users has created the profile document X in "Users", a
\* subscription document keyed by X exists in "Suscriptions".
C2_ProfileCreationProvisions ==
    (/\ IsHttp /\ last.endpoint = "users" /\ last.req.method = "POST"
     /\ \E i \in MutationsIssued(last) :
            /\ last.calls[i].op = "Create" /\ last.calls[i].coll = "Users"
            /\ ~last.calls[i].err)
        => store["Suscriptions"][last.calls[1].id] # Absent

\* C3: after POST /users answered 201 for identifier u and no mutation
\* since, GET /users?uid=u whose query runs without a store failure answers
\* 200 with the document the create wrote.
C3_CreateThenRead ==
    (/\ created # <<>>
     /\ IsHttp /\ last.endpoint = "users" /\ last.req.method = "GET"
     /\ last.handler = "getUsers"
     /\ last.req.uid = created[1].id
     /\ \A i \in 1..Len(last.calls) : ~last.calls[i].err)
        => /\ Sent(last) = 200
           /\ last.w.body = <<JsonItem(store["Users"][created[1].id][1])>>

\* The case of C4: a mutating request with a body that is not well-formed
\* JSON, whose mutation handler ran.
MalformedHandled ==
    IsMutating /\ last.req.body.kind = "malformed" /\ last.handler # ""

\* C4 as claimed: a mutating request with a malformed body is answered 400
\* and issues no mutation, whatever the authorization step did.
C4_MalformedAlways400 ==
    MalformedHandled
        => /\ Sent(last) = 400
           /\ MutationsIssued(last) = {}
           /\ ~last.changed

\* C4 as amended: a mutating request with a malformed body issues no
\* create, set or delete and leaves the store unchanged; it is answered 400
\* when the authorization step accepted the token and 403, the status that
\* step had already written, when it rejected the token.
C4_MalformedNoMutation ==
    MalformedHandled
        => /\ MutationsIssued(last) = {}
           /\ ~last.changed
           /\ last.outcome = "return"
           /\ Sent(last) = IF last.auth = "rejected" THEN 403 ELSE 400

C4_Witness ==
    /\ MalformedHandled
    /\ last.req.method = "POST"
    /\ last.auth = "rejected"
    /\ last.w.writeHeaderCalls = <<403, 400>>

\* The document id a mutating request's body decodes to: <<id>>, or <<>>
\* when the body cannot be read or decoded.
DecodedId(req) ==
    IF req.body.kind = "readerr" THEN <<>>
    ELSE IF req.method = "DELETE"
    THEN IF UnmarshalDelete(req.body).err THEN <<>>
         ELSE <<UnmarshalDelete(req.body).v.ID>>
    ELSE IF UnmarshalUsersFields(req.body).err THEN <<>>
         ELSE <<UnmarshalUsersFields(req.body).v.ID>>

\* C5: no create, set or delete is issued with an empty document id; a
\* mutating request whose decoded id is empty is answered 400.
C5_NoEmptyIdCall ==
    (IsMutating /\ last.auth = "ok" /\ last.outcome = "return")
        => /\ \A i \in MutationsIssued(last) : last.calls[i].id # ""
           /\ (last.handler # "" /\ DecodedId(last.req) = <<"">>)
                 => (Sent(last) = 400 /\ ~last.changed)

\* C6: the subscription HandleUserCreate builds has expired = false,
\* suscriptionType = "free-trial" and cost = 0; the one store call issued is
\* a create in "Suscriptions" under the profile id carrying that record; and
\* expireAt is createdAt plus exactly 84 days, both from one clock reading.
C6_TrialSubscription ==
    (last.kind = "trigger" /\ last.susc # <<>>)
        => LET s == last.susc[1]
               c == last.calls[1]
           IN  /\ s.expired = FALSE
               /\ s.suscriptionType = "free-trial"
               /\ s.cost = 0
               /\ Len(last.calls) = 1
               /\ c.op = "Create" /\ c.coll = "Suscriptions" /\ c.id = last.req.uid
               /\ c.data.fields = s
               /\ Len(last.clock) = 1
               /\ s.createdAt.wall = last.clock[1].sec - (3 * 60 * 60)
               /\ s.expireAt.wall - s.createdAt.wall = 84 * 24 * 60 * 60
               /\ s.expireAt.zone = s.createdAt.zone

C6_Witness ==
    /\ last.kind = "trigger" /\ last.susc # <<>>
    /\ last.req.uid = "u1"
    /\ last.clock[1].sec > 0 /\ last.clock[1].nsec > 0

\* C7: a GET whose query runs answers 404 with the NOT_FOUND body when no
\* document matches, 200 with the first match when some do, and 500 without
\* a body when the iteration fails; no GET runs the verifier or mutates the
\* store.
C7_Read ==
    (IsHttp /\ last.req.method = "GET")
        => /\ last.auth = "none"
           /\ MutationsIssued(last) = {}
           /\ ~last.changed
           /\ last.handler # "" =>
                LET matches == SelectSeq(store["user"],
                                         LAMBDA d : d["uid"] = last.req.uid)
                IN  /\ Len(last.calls) = 1
                    /\ last.calls[1].err =>
                          (Sent(last) = 500 /\ last.w.body = <<>>)
                    /\ (~last.calls[1].err /\ matches = <<>>) =>
                          /\ Sent(last) = 404
                          /\ last.w.body =
                               <<JsonItem([error |-> "NOT_FOUND", statusCode |-> 404,
                                           data |-> Null,
                                           message |-> "User uid not found"])>>
                    /\ (~last.calls[1].err /\ matches # <<>>) =>
                          /\ Sent(last) = 200
                          /\ last.w.body = <<JsonItem(matches[1])>>

C7_Witness ==
    /\ IsHttp /\ last.req.method = "GET" /\ last.handler = "getSuscriptions"
    /\ Sent(last) = 200
    /\ Len(store["user"]) = 2
    /\ last.w.body = <<JsonItem(LegacyAna)>>

PreflightHeaders ==
    {<<"Access-Control-Allow-Origin", "*">>,
     <<"Access-Control-Allow-Methods", "*">>,
     <<"Access-Control-Allow-Headers", "Content-Type">>,
     <<"Access-Control-Max-Age", "3600">>}

Untouched ==
    /\ last.auth = "none" /\ last.handler = "" /\ last.calls = <<>> /\ ~last.changed

\* C8 as claimed: every OPTIONS request is answered 204 with the four CORS
\* headers and no body, and every request with another unsupported method
\* 404, all without verifier, handler or store change.
C8_EveryPreflight204 ==
    /\ (IsHttp /\ last.req.method = "OPTIONS")
          => (Sent(last) = 204 /\ last.w.headers = PreflightHeaders
              /\ last.w.body = <<>> /\ Untouched)
    /\ (IsHttp /\ last.req.method = "PATCH")
          => (Sent(last) = 404 /\ Untouched)

\* C8 as amended: an OPTIONS request for which the entry point obtained its
\* app and store client is answered 204 with the four CORS headers and no
\* body, and a request with an unsupported method 404 "UNSUPPORTED METHOD";
\* when the app or the client cannot be obtained either is answered 500; in
\* all cases without verifier, handler or store change.
C8_Preflight ==
    /\ (IsHttp /\ last.req.method = "OPTIONS")
          => /\ Untouched
             /\ IF last.acquired
                THEN /\ Sent(last) = 204
                     /\ last.w.headers = PreflightHeaders
                     /\ last.w.body = <<>>
                ELSE Sent(last) = 500 /\ last.w.body = <<>>
    /\ (IsHttp /\ last.req.method = "PATCH")
          => /\ Untouched
             /\ IF last.acquired
                THEN /\ Sent(last) = 404
                     /\ last.w.body = <<TextItem("UNSUPPORTED METHOD\n")>>
                ELSE Sent(last) = 500 /\ last.w.body = <<>>

C8_Witness ==
    /\ IsHttp /\ last.req.method = "OPTIONS" /\ last.acquired
    /\ Sent(last) = 204
    /\ last.closes = 1

\* C9: a request that acquired a store client has released it exactly once
\* when it ends.
C9_ClientReleasedOnce ==
    (IsHttp /\ last.acquired) => last.closes = 1

\* C10: a request whose body can be read ends with one status, 403 for a
\* rejected token and 500 for a verifier that cannot be obtained, and the
\* server keeps running.
C10_OneStatusServerRuns ==
    (IsHttp /\ last.req.body.kind # "readerr")
        => /\ running
           /\ Sent(last) # 0
           /\ last.auth = "rejected" => Sent(last) = 403
           /\ last.auth = "fatal" => Sent(last) = 500

====
